---------------------------- MODULE Spec2Model ----------------------------
(***************************************************************************)
(* Circle-Puzzle: the controller of src/script/puzzle.js as a state        *)
(* machine.  A PuzzleController owns concentric PuzzleCircles; mousedown,  *)
(* mousemove and mouseup handlers select a circle and turn horizontal      *)
(* cursor travel into rotation.                                            *)
(*                                                                         *)
(* Every JavaScript Number of the program is an IEEE-754 double.  Doubles  *)
(* are modelled exactly: a sign, a 53-bit significand held as base-2^15    *)
(* digits (TLC's integers are 32 bits wide) and a binary exponent, with    *)
(* round-to-nearest-even after every operation.  Subnormals, infinities    *)
(* and the sign of zero are outside the ranges the model reaches.          *)
(***************************************************************************)
EXTENDS Integers, Sequences, FiniteSets, TLC

(***************************************************************************)
(* Natural numbers of any size: little-endian sequences of base-2^15       *)
(* digits without leading (high) zero digits; << >> is 0.                  *)
(***************************************************************************)
Base == 2^15

RECURSIVE BNorm(_)
BNorm(a) ==
  IF a = << >> THEN << >>
  ELSE IF a[Len(a)] = 0 THEN BNorm(SubSeq(a, 1, Len(a) - 1))
  ELSE a

RECURSIVE BFromNat(_)
BFromNat(n) ==
  IF n = 0 THEN << >> ELSE <<n % Base>> \o BFromNat(n \div Base)

RECURSIVE BAddC(_, _, _)
BAddC(a, b, c) ==
  IF a = << >> /\ b = << >> THEN (IF c = 0 THEN << >> ELSE <<c>>)
  ELSE LET x == IF a = << >> THEN 0 ELSE Head(a)
           y == IF b = << >> THEN 0 ELSE Head(b)
           s == x + y + c
           ta == IF a = << >> THEN << >> ELSE Tail(a)
           tb == IF b = << >> THEN << >> ELSE Tail(b)
       IN <<s % Base>> \o BAddC(ta, tb, s \div Base)

BAdd(a, b) == BAddC(a, b, 0)

\* a - b for a >= b
RECURSIVE BSubC(_, _, _)
BSubC(a, b, c) ==
  IF a = << >> THEN << >>
  ELSE LET y == IF b = << >> THEN 0 ELSE Head(b)
           d == Head(a) - y - c
           tb == IF b = << >> THEN << >> ELSE Tail(b)
       IN <<d % Base>> \o BSubC(Tail(a), tb, IF d < 0 THEN 1 ELSE 0)

BSub(a, b) == BNorm(BSubC(a, b, 0))

\* -1, 0, 1 as a < b, a = b, a > b (both normalised)
RECURSIVE BCmpFrom(_, _, _)
BCmpFrom(a, b, i) ==
  IF i = 0 THEN 0
  ELSE IF a[i] < b[i] THEN -1
  ELSE IF a[i] > b[i] THEN 1
  ELSE BCmpFrom(a, b, i - 1)

BCmp(a, b) ==
  IF Len(a) < Len(b) THEN -1
  ELSE IF Len(a) > Len(b) THEN 1
  ELSE BCmpFrom(a, b, Len(a))

\* a * k for a digit-sized k (0 <= k <= Base)
RECURSIVE BMulSmallC(_, _, _)
BMulSmallC(a, k, c) ==
  IF a = << >> THEN (IF c = 0 THEN << >> ELSE <<c>>)
  ELSE LET p == Head(a) * k + c
       IN <<p % Base>> \o BMulSmallC(Tail(a), k, p \div Base)

BMulSmall(a, k) == BNorm(BMulSmallC(a, k, 0))

RECURSIVE BMul(_, _)
BMul(a, b) ==
  IF b = << >> \/ a = << >> THEN << >>
  ELSE LET rest == BMul(a, Tail(b))
       IN BAdd(BMulSmall(a, Head(b)),
               IF rest = << >> THEN << >> ELSE <<0>> \o rest)

\* floor(a / k) for a digit-sized k >= 1
RECURSIVE BDivSmallR(_, _, _)
BDivSmallR(a, k, i) ==
  \* digits i..1 of a; returns <<quotient digits (little-endian), remainder>>
  IF i > Len(a) THEN << << >>, 0 >>
  ELSE LET hi == BDivSmallR(a, k, i + 1)
           cur == hi[2] * Base + a[i]
       IN << <<cur \div k>> \o hi[1], cur % k >>

BDivSmall(a, k) == BNorm(BDivSmallR(a, k, 1)[1])

RECURSIVE BitLenNat(_)
BitLenNat(n) == IF n = 0 THEN 0 ELSE 1 + BitLenNat(n \div 2)

DigitBits == BitLenNat(Base) - 1

BBitLen(a) ==
  IF a = << >> THEN 0 ELSE DigitBits * (Len(a) - 1) + BitLenNat(a[Len(a)])

Zeros(n) == [i \in 1..n |-> 0]

\* a * 2^n
BShl(a, n) ==
  IF a = << >> THEN << >>
  ELSE Zeros(n \div DigitBits) \o BMulSmall(a, 2^(n % DigitBits))

\* floor(a / 2^n)
BShr(a, n) ==
  LET k == n \div DigitBits
  IN IF k >= Len(a) THEN << >>
     ELSE BDivSmall(SubSeq(a, k + 1, Len(a)), 2^(n % DigitBits))

BIsOdd(a) == a # << >> /\ a[1] % 2 = 1

(***************************************************************************)
(* IEEE-754 binary64 values (JavaScript Number).  A nonzero double is      *)
(* sgn * man * 2^exp with man a significand of exactly MantBits bits;      *)
(* zero is FZero.  Every operation computes the exact result and rounds it *)
(* to nearest, ties to even, as the language does.                         *)
(***************************************************************************)
MantBits == 53

FZero == [sgn |-> 1, man |-> << >>, exp |-> 0]

IsZero(a) == a.man = << >>

\* sgn * man * 2^exp rounded to a double; sticky says that the exact value
\* lies strictly above man * 2^exp in magnitude (bits lost by a division).
FRound(sgn, man, exp, sticky) ==
  LET L == BBitLen(man)
  IN IF man = << >> THEN FZero
     ELSE IF L <= MantBits
       THEN [sgn |-> sgn, man |-> BShl(man, MantBits - L), exp |-> exp - (MantBits - L)]
     ELSE LET k    == L - MantBits
              q    == BShr(man, k)
              r    == BSub(man, BShl(q, k))
              c    == BCmp(r, BShl(<<1>>, k - 1))
              up   == c = 1 \/ (c = 0 /\ (sticky \/ BIsOdd(q)))
              q2   == IF up THEN BAdd(q, <<1>>) ELSE q
          IN IF BBitLen(q2) > MantBits
               THEN [sgn |-> sgn, man |-> BShr(q2, 1), exp |-> exp + k + 1]
               ELSE [sgn |-> sgn, man |-> q2, exp |-> exp + k]

FromInt(n) ==
  IF n < 0 THEN FRound(-1, BFromNat(-n), 0, FALSE)
  ELSE FRound(1, BFromNat(n), 0, FALSE)

FNeg(a) == IF IsZero(a) THEN a ELSE [a EXCEPT !.sgn = -a.sgn]

FSign(a) == IF IsZero(a) THEN 0 ELSE a.sgn

(***************************************************************************)
(* Exact arithmetic on sgn * man * 2^exp with man of any size: the real    *)
(* results that the Number operations round.                               *)
(***************************************************************************)
\* -1, 0, 1 as |a| < |b|, |a| = |b|, |a| > |b|
XCmpAbs(a, b) ==
  IF IsZero(a) THEN (IF IsZero(b) THEN 0 ELSE -1)
  ELSE IF IsZero(b) THEN 1
  ELSE LET e == IF a.exp < b.exp THEN a.exp ELSE b.exp
       IN BCmp(BShl(a.man, a.exp - e), BShl(b.man, b.exp - e))

XLess(a, b) ==
  IF FSign(a) # FSign(b) THEN FSign(a) < FSign(b)
  ELSE IF FSign(a) = 0 THEN FALSE
  ELSE IF FSign(a) = 1 THEN XCmpAbs(a, b) = -1
  ELSE XCmpAbs(a, b) = 1

XEq(a, b) == FSign(a) = FSign(b) /\ XCmpAbs(a, b) = 0

XAbs(a) == [a EXCEPT !.sgn = 1]

XAdd(a, b) ==
  IF IsZero(a) THEN b
  ELSE IF IsZero(b) THEN a
  ELSE LET e  == IF a.exp < b.exp THEN a.exp ELSE b.exp
           ma == BShl(a.man, a.exp - e)
           mb == BShl(b.man, b.exp - e)
           c  == BCmp(ma, mb)
       IN IF a.sgn = b.sgn THEN [sgn |-> a.sgn, man |-> BAdd(ma, mb), exp |-> e]
          ELSE IF c = 0 THEN FZero
          ELSE IF c = 1 THEN [sgn |-> a.sgn, man |-> BSub(ma, mb), exp |-> e]
          ELSE [sgn |-> b.sgn, man |-> BSub(mb, ma), exp |-> e]

XSub(a, b) == XAdd(a, FNeg(b))

XMul(a, b) ==
  IF IsZero(a) \/ IsZero(b) THEN FZero
  ELSE [sgn |-> a.sgn * b.sgn, man |-> BMul(a.man, b.man), exp |-> a.exp + b.exp]

\* 2^n
XPow2(n) == [sgn |-> 1, man |-> <<1>>, exp |-> n]

\* the < of two Numbers
FLess(a, b) == XLess(a, b)

\* the + of two Numbers
FAdd(a, b) == LET x == XAdd(a, b) IN FRound(x.sgn, x.man, x.exp, FALSE)

\* the binary - of two Numbers
FSub(a, b) == FAdd(a, FNeg(b))

\* the * of two Numbers
FMul(a, b) == LET x == XMul(a, b) IN FRound(x.sgn, x.man, x.exp, FALSE)

\* One step of restoring division: s = <<quotient, remainder>>, remainder < d.
FDivStep(s, d) ==
  LET r2 == BMulSmall(s[2], 2)
      q2 == BMulSmall(s[1], 2)
  IN IF BCmp(r2, d) >= 0 THEN <<BAdd(q2, <<1>>), BSub(r2, d)>> ELSE <<q2, r2>>

\* n further quotient bits of s; once the remainder is 0 the rest are 0 bits
RECURSIVE FDivBits(_, _, _)
FDivBits(s, d, n) ==
  IF n = 0 THEN s
  ELSE IF s[2] = << >> THEN <<BShl(s[1], n), << >> >>
  ELSE FDivBits(FDivStep(s, d), d, n - 1)

GuardBits == MantBits + 2

\* The quotient of the significands to GuardBits further bits, and whether
\* a remainder is left: <<q, exponent of q's unit, inexact>>.
\* A divisor significand with a single nonzero digit is divided digit-wise.
FDivQuotient(am, bm) ==
  IF SubSeq(bm, 1, Len(bm) - 1) = Zeros(Len(bm) - 1)
    THEN LET qr == BDivSmallR(<<0>> \o am, bm[Len(bm)], 1)
         IN <<BNorm(qr[1]), -DigitBits * Len(bm), qr[2] # 0>>
    ELSE LET ge  == BCmp(am, bm) >= 0
             s0  == IF ge THEN << <<1>>, BSub(am, bm) >> ELSE << << >>, am >>
             h   == GuardBits \div 2
             mid == FDivBits(s0, bm, h)
             qr  == IF mid[2] = << >> THEN <<BShl(mid[1], GuardBits - h), << >> >>
                    ELSE FDivBits(mid, bm, GuardBits - h)
         IN <<qr[1], -GuardBits, qr[2] # << >> >>

\* the / of two Numbers, for a nonzero divisor
FDiv(a, b) ==
  IF IsZero(a) THEN FZero
  ELSE LET q == FDivQuotient(a.man, b.man)
       IN FRound(a.sgn * b.sgn, q[1], a.exp - b.exp + q[2], q[3])

\* Math.PI, 0x400921FB54442D18
MathPI == [sgn |-> 1, man |-> <<11544, 10376, 2029, 201>>, exp |-> -51]

(***************************************************************************)
(* The program.                                                            *)
(***************************************************************************)
\* null, and a value that is not null
Null == << >>
Some(v) == <<v>>
Val(o) == o[1]

\* var FULL_ROTATION = (Math.PI * 2);
FULL_ROTATION == FMul(MathPI, FromInt(2))
\* var ROTATION_SPEED = 50;
ROTATION_SPEED == 50

\* The longest session of input events explored.
MaxEvents == 4

\* The pages the model is launched on: the canvas element, the loaded image
\* and the numCircles argument (5 in the page's own launch code).
Configs ==
  { [width |-> 400, height |-> 400, offsetLeft |-> 0, offsetTop |-> 0,
     imageWidth |-> 400, imageHeight |-> 400, numCircles |-> 5],
    [width |-> 400, height |-> 400, offsetLeft |-> 8, offsetTop |-> 8,
     imageWidth |-> 640, imageHeight |-> 480, numCircles |-> 3],
    [width |-> 400, height |-> 400, offsetLeft |-> 0, offsetTop |-> 0,
     imageWidth |-> 400, imageHeight |-> 400, numCircles |-> 0],
    [width |-> 400, height |-> 400, offsetLeft |-> 0, offsetTop |-> 0,
     imageWidth |-> 0, imageHeight |-> 0, numCircles |-> 3],
    [width |-> 400, height |-> 0, offsetLeft |-> 0, offsetTop |-> 0,
     imageWidth |-> 400, imageHeight |-> 400, numCircles |-> 3] }

\* Results of successive Math.random() calls, as eighths: doubles in [0, 1).
RandomStreams == { <<4, 4, 4, 4, 4>>, <<0, 2, 6, 1, 3>> }
MathRandom(stream, i) == FDiv(FromInt(stream[i + 1]), FromInt(8))

\* Cursor positions relative to the canvas' top left corner.
CursorPoints ==
  { <<200, 200>>, <<80, 200>>, <<100, 250>>, <<80, 150>>, <<-10, 100>> }

VARIABLES
  puzzleCanvas,   \* the canvas element: width, height, offsetLeft, offsetTop
  image,          \* the Image: width, height
  circles,        \* this.circles: 0..numCircles-1 -> PuzzleCircle
  isDragging,     \* this.isDragging
  activeCircle,   \* this.activeCircle: Null or Some(index into circles)
  lastCursorX,    \* the closure variable: Null or Some(x)
  event,          \* the event whose handler ran last (type, pageX, pageY, ...)
  drawCalls,      \* draw() calls made by the handler that ran last
  frame,          \* what the canvas shows: the layers painted since the last clear
  gfxContext,     \* puzzleCanvas.gfxContext
  canvasCalls,    \* the puzzleCanvas drawing methods the last handler called
  nEvents         \* events handled so far

vars == <<puzzleCanvas, image, circles, isDragging, activeCircle, lastCursorX,
          event, drawCalls, frame, gfxContext, canvasCalls, nEvents>>

Min(a, b) == IF a < b THEN a ELSE b

\* PUZZLE.PuzzleCircle
PuzzleCircle(x, y, radius, img, rotation) ==
  [x |-> x, y |-> y, radius |-> radius, image |-> img, rotation |-> rotation]

\* A containment test that counts the boundary as inside.
isInside_inclusive(circle, x, y) ==
  LET xDist == FSub(circle.x, x)
      yDist == FSub(circle.y, y)
  IN ~FLess(FMul(circle.radius, circle.radius),
            FAdd(FMul(xDist, xDist), FMul(yDist, yDist)))

\* PUZZLE.PuzzleCircle.prototype.isInside
isInside(circle, x, y) ==
  LET xDist == FSub(circle.x, x)
      yDist == FSub(circle.y, y)
  IN FLess(FAdd(FMul(xDist, xDist), FMul(yDist, yDist)),
           FMul(circle.radius, circle.radius))

\* The radius decremented before circle i is created instead of after.
RECURSIVE currRadius_decrementFirst(_, _, _)
currRadius_decrementFirst(maxRadius, radiusDiff, i) ==
  IF i = 0 THEN FSub(maxRadius, radiusDiff)
  ELSE FSub(currRadius_decrementFirst(maxRadius, radiusDiff, i - 1), radiusDiff)

\* currRadius when circle i is created: maxRadius after i times -= radiusDiff
RECURSIVE currRadius(_, _, _)
currRadius(maxRadius, radiusDiff, i) ==
  IF i = 0 THEN maxRadius
  ELSE FSub(currRadius(maxRadius, radiusDiff, i - 1), radiusDiff)

\* var maxRadius = Math.min(canvasWidth, canvasHeight, imageWidth, imageHeight)/2;
MaxRadius(canvasWidth, canvasHeight, imageWidth, imageHeight) ==
  FDiv(FromInt(Min(Min(canvasWidth, canvasHeight), Min(imageWidth, imageHeight))),
       FromInt(2))

\* The circles the constructor creates.
NewCircles(canvasWidth, canvasHeight, img, numCircles, stream) ==
  LET maxRadius  == MaxRadius(canvasWidth, canvasHeight, img.width, img.height)
      centerX    == FDiv(FromInt(canvasWidth), FromInt(2))
      centerY    == FDiv(FromInt(canvasHeight), FromInt(2))
      radiusDiff == FDiv(maxRadius, FromInt(numCircles))
  IN [i \in 0..(numCircles - 1) |->
        PuzzleCircle(centerX, centerY, currRadius(maxRadius, radiusDiff, i), img,
                     FMul(MathRandom(stream, i), FULL_ROTATION))]

\* The 2D context canvas.getContext('2d') returns: its drawing state (composite
\* operation, transform, clip region), the stack of saved drawing states and
\* the current path.  A transform is the sequence of transformations applied
\* to the identity, a clip region the sequence of paths it was intersected with.
NewContext ==
  [globalCompositeOperation |-> "source-over", transform |-> <<>>, clip |-> <<>>,
   stack |-> <<>>, path |-> <<>>]

\* The part of a context that save() pushes and restore() pops.
DrawingState(context) ==
  [globalCompositeOperation |-> context.globalCompositeOperation,
   transform |-> context.transform, clip |-> context.clip]

\* context.save()
save(context) == [context EXCEPT !.stack = Append(@, DrawingState(context))]

\* context.restore(): without a saved state it does nothing
restore(context) ==
  IF context.stack = <<>> THEN context
  ELSE LET saved == context.stack[Len(context.stack)]
       IN [context EXCEPT
             !.globalCompositeOperation = saved.globalCompositeOperation,
             !.transform = saved.transform,
             !.clip = saved.clip,
             !.stack = SubSeq(@, 1, Len(@) - 1)]

\* context.translate(x, y)
translate(context, x, y) ==
  [context EXCEPT !.transform = Append(@, <<"translate", x, y>>)]

\* context.rotate(angle)
rotate(context, angle) == [context EXCEPT !.transform = Append(@, <<"rotate", angle>>)]

\* context.beginPath()
beginPath(context) == [context EXCEPT !.path = <<>>]

\* context.arc(0, 0, radius, 0, Math.PI * 2, false): a full circle around the
\* origin of the current transform
arc(context, radius) ==
  [context EXCEPT !.path = Append(@, [radius |-> radius, transform |-> context.transform])]

\* context.clip()
clip(context) == [context EXCEPT !.clip = Append(@, context.path)]

\* context.drawImage(puzzleCircle.image, -(image.width/2), -(image.height/2))
\* for circles[i]: the layer it paints, with the drawing state it is painted under
drawImage(context, i, puzzleCircle) ==
  LET origin == [side \in {"width", "height"} |->
                   FNeg(FDiv(FromInt(puzzleCircle.image[side]), FromInt(2)))]
  IN [index |-> i, rotation |-> puzzleCircle.rotation, image |-> puzzleCircle.image,
      dx |-> origin["width"], dy |-> origin["height"],
      globalCompositeOperation |-> context.globalCompositeOperation,
      transform |-> context.transform, clip |-> context.clip]

\* A puzzle canvas as the drawing methods see it: the context, the layers
\* painted since the canvas was last cleared, and the methods called on it.
Canvas(context, layers, calls) ==
  [gfxContext |-> context, frame |-> layers, calls |-> calls]

\* PUZZLE.PuzzleCanvas.prototype.clear: clearRect(0, 0, width, height) empties
\* the whole canvas only under the identity transform and without a clip region
clear(cv) ==
  LET context == [cv.gfxContext EXCEPT !.globalCompositeOperation = "destination-over"]
  IN Canvas(context,
            IF context.transform = <<>> /\ context.clip = <<>> THEN <<>> ELSE cv.frame,
            Append(cv.calls, <<"clear">>))

\* drawPuzzleCircle without the save/restore pair around the composition.
drawPuzzleCircle_unscoped(cv, i, puzzleCircle) ==
  LET c1 == [cv.gfxContext EXCEPT !.globalCompositeOperation = "source-over"]
      c2 == rotate(translate(c1, puzzleCircle.x, puzzleCircle.y), puzzleCircle.rotation)
      c3 == clip(arc(beginPath(c2), puzzleCircle.radius))
  IN Canvas(c3,
            Append(cv.frame, drawImage(c3, i, puzzleCircle)),
            Append(cv.calls, <<"drawPuzzleCircle", i>>))

\* PUZZLE.PuzzleCanvas.prototype.drawPuzzleCircle, for circles[i]
drawPuzzleCircle(cv, i, puzzleCircle) ==
  LET c0 == save(cv.gfxContext)
      c1 == [c0 EXCEPT !.globalCompositeOperation = "source-over"]
      c2 == rotate(translate(c1, puzzleCircle.x, puzzleCircle.y), puzzleCircle.rotation)
      c3 == clip(arc(beginPath(c2), puzzleCircle.radius))
  IN Canvas(restore(c3),
            Append(cv.frame, drawImage(c3, i, puzzleCircle)),
            Append(cv.calls, <<"drawPuzzleCircle", i>>))

\* The loop of draw() run from the last circle down to the first.
RECURSIVE drawCircles_lastToFirst(_, _, _)
drawCircles_lastToFirst(cv, cs, i) ==
  LET k == Cardinality(DOMAIN cs) - 1 - i
  IN IF k < 0 THEN cv
     ELSE drawCircles_lastToFirst(drawPuzzleCircle(cv, k, cs[k]), cs, i + 1)

\* The loop of draw(): for(var i=0; i<this.circles.length; i++)
RECURSIVE drawCircles(_, _, _)
drawCircles(cv, cs, i) ==
  IF i >= Cardinality(DOMAIN cs) THEN cv
  ELSE drawCircles(drawPuzzleCircle(cv, i, cs[i]), cs, i + 1)

\* PUZZLE.PuzzleController.prototype.draw: clear, then every circle in index order
draw(cv, cs) == drawCircles(clear(cv), cs, 0)

\* rotateCircle that turns every circle of the puzzle.
rotateCircle_all(cs, i, rotation) ==
  [k \in DOMAIN cs |-> [cs[k] EXCEPT !.rotation = FAdd(@, rotation)]]

\* rotateCircle with = for += : the rotation is replaced, not accumulated.
rotateCircle_assign(cs, i, rotation) ==
  [cs EXCEPT ![i].rotation = rotation]

\* PUZZLE.PuzzleController.prototype.rotateCircle: circle.rotation += rotation
rotateCircle(cs, i, rotation) ==
  [cs EXCEPT ![i].rotation = FAdd(@, rotation)]

\* UTIL.getCursorPosition
UTIL_getCursorPosition(e) ==
  IF e.pageX # 0 \/ e.pageY # 0
    THEN [x |-> e.pageX, y |-> e.pageY]
    ELSE [x |-> e.clientX + e.scrollLeft, y |-> e.clientY + e.scrollTop]

\* PUZZLE.PuzzleCanvas.prototype.getCursorPosition
getCursorPosition(canvas, e) ==
  LET cursorPos == UTIL_getCursorPosition(e)
  IN [x |-> cursorPos.x - canvas.offsetLeft, y |-> cursorPos.y - canvas.offsetTop]

\* The mouse events the browser can deliver for a cursor over point p of the
\* canvas (the document is not scrolled).
MouseEvent(type, canvas, p) ==
  [type |-> type,
   pageX |-> p[1] + canvas.offsetLeft, pageY |-> p[2] + canvas.offsetTop,
   clientX |-> p[1] + canvas.offsetLeft, clientY |-> p[2] + canvas.offsetTop,
   scrollLeft |-> 0, scrollTop |-> 0]

\* A scan from the first circle to the last: the outermost containing circle wins.
clickedCircle_firstToLast(cs, i, x, y) ==
  LET H == {k \in 0..i : isInside(cs[k], FromInt(x), FromInt(y))}
  IN IF H = {} THEN Null ELSE Some(CHOOSE m \in H : \A k \in H : m <= k)

\* The mousedown handler's loop: the last circle that contains the cursor.
RECURSIVE clickedCircle(_, _, _, _)
clickedCircle(cs, i, x, y) ==
  IF i < 0 THEN Null
  ELSE IF isInside(cs[i], FromInt(x), FromInt(y)) THEN Some(i)
  ELSE clickedCircle(cs, i - 1, x, y)

Init ==
  \E cfg \in Configs, stream \in RandomStreams :
    /\ puzzleCanvas = [width |-> cfg.width, height |-> cfg.height,
                       offsetLeft |-> cfg.offsetLeft, offsetTop |-> cfg.offsetTop]
    /\ image = [width |-> cfg.imageWidth, height |-> cfg.imageHeight]
    /\ isDragging = FALSE
    /\ activeCircle = Null
    /\ lastCursorX = Null
    /\ event = [type |-> "load"]
    /\ drawCalls = 1
    /\ \E cs \in {NewCircles(cfg.width, cfg.height,
                              [width |-> cfg.imageWidth, height |-> cfg.imageHeight],
                              cfg.numCircles, stream)} :
       \E drawn \in {draw(Canvas(NewContext, <<>>, <<>>), cs)} :
          /\ circles = cs
          /\ frame = drawn.frame
          /\ gfxContext = drawn.gfxContext
          /\ canvasCalls = drawn.calls
    /\ nEvents = 0

\* A mousedown handler that raises isDragging before it looks for a circle.
MouseDown_flagFirst(e) ==
  LET cursorPos == getCursorPosition(puzzleCanvas, e)
      hit == clickedCircle(circles, Cardinality(DOMAIN circles) - 1,
                           cursorPos.x, cursorPos.y)
  IN /\ nEvents < MaxEvents
     /\ nEvents' = nEvents + 1
     /\ event' = e
     /\ isDragging' = TRUE
     /\ IF hit # Null THEN activeCircle' = hit ELSE UNCHANGED activeCircle
     /\ drawCalls' = 0
     /\ canvasCalls' = <<>>
     /\ UNCHANGED <<puzzleCanvas, image, circles, lastCursorX, frame, gfxContext>>

\* A mousedown handler that ignores the event while a drag is in progress.
MouseDown_guarded(e) ==
  LET cursorPos == getCursorPosition(puzzleCanvas, e)
      hit == clickedCircle(circles, Cardinality(DOMAIN circles) - 1,
                           cursorPos.x, cursorPos.y)
  IN /\ nEvents < MaxEvents
     /\ nEvents' = nEvents + 1
     /\ event' = e
     /\ IF hit # Null /\ ~isDragging
          THEN activeCircle' = hit /\ isDragging' = TRUE
          ELSE UNCHANGED <<activeCircle, isDragging>>
     /\ drawCalls' = 0
     /\ canvasCalls' = <<>>
     /\ UNCHANGED <<puzzleCanvas, image, circles, lastCursorX, frame, gfxContext>>

\* Event Handler: On Mouse Down
MouseDown(e) ==
  LET cursorPos == getCursorPosition(puzzleCanvas, e)
      hit == clickedCircle(circles, Cardinality(DOMAIN circles) - 1,
                           cursorPos.x, cursorPos.y)
  IN /\ nEvents < MaxEvents
     /\ nEvents' = nEvents + 1
     /\ event' = e
     /\ IF hit # Null
          THEN activeCircle' = hit /\ isDragging' = TRUE
          ELSE UNCHANGED <<activeCircle, isDragging>>
     /\ drawCalls' = 0
     /\ canvasCalls' = <<>>
     /\ UNCHANGED <<puzzleCanvas, image, circles, lastCursorX, frame, gfxContext>>

\* A mouseup handler that forgets to reset the cached cursor position.
MouseUp_keepsCache(e) ==
  /\ nEvents < MaxEvents
  /\ nEvents' = nEvents + 1
  /\ event' = e
  /\ isDragging' = FALSE
  /\ drawCalls' = 0
  /\ canvasCalls' = <<>>
  /\ UNCHANGED <<puzzleCanvas, image, circles, activeCircle, frame, lastCursorX, gfxContext>>

\* Event Handler: On Mouse Up
MouseUp(e) ==
  /\ nEvents < MaxEvents
  /\ nEvents' = nEvents + 1
  /\ event' = e
  /\ isDragging' = FALSE
  /\ lastCursorX' = Null
  /\ drawCalls' = 0
  /\ canvasCalls' = <<>>
  /\ UNCHANGED <<puzzleCanvas, image, circles, activeCircle, frame, gfxContext>>

\* The upper-half test written with <= : the center line counts as upper half.
moveRotation_centerIsUpper(cursorX, cursorY, lastX, circle) ==
  LET cursorXDiff == cursorX - lastX
      rotation    == FNeg(FDiv(FromInt(cursorXDiff), FromInt(ROTATION_SPEED)))
  IN IF ~FLess(circle.y, FromInt(cursorY))
       THEN FSub(FULL_ROTATION, rotation)
       ELSE rotation

\* The rotation the mousemove handler passes to rotateCircle.
moveRotation(cursorX, cursorY, lastX, circle) ==
  LET cursorXDiff == cursorX - lastX
      rotation    == FNeg(FDiv(FromInt(cursorXDiff), FromInt(ROTATION_SPEED)))
  IN IF FLess(FromInt(cursorY), circle.y)
       THEN FSub(FULL_ROTATION, rotation)
       ELSE rotation

\* A mousemove handler that turns the active circle without drawing the puzzle.
MouseMove_noDraw(e) ==
  LET cursorPos == getCursorPosition(puzzleCanvas, e)
      cursorX   == cursorPos.x
      cursorY   == cursorPos.y
  IN /\ nEvents < MaxEvents
     /\ nEvents' = nEvents + 1
     /\ event' = e
     /\ drawCalls' = 0
     /\ canvasCalls' = <<>>
     /\ IF ~isDragging
          THEN UNCHANGED <<circles, lastCursorX>>
        ELSE IF lastCursorX = Null
          THEN lastCursorX' = Some(cursorX) /\ UNCHANGED circles
        ELSE /\ circles' = rotateCircle(circles, Val(activeCircle),
                               moveRotation(cursorX, cursorY, Val(lastCursorX),
                                            circles[Val(activeCircle)]))
             /\ lastCursorX' = Some(cursorX)
     /\ UNCHANGED <<puzzleCanvas, image, isDragging, activeCircle, frame, gfxContext>>

\* Event Handler: On Mouse Move
MouseMove(e) ==
  LET cursorPos == getCursorPosition(puzzleCanvas, e)
      cursorX   == cursorPos.x
      cursorY   == cursorPos.y
  IN /\ nEvents < MaxEvents
     /\ nEvents' = nEvents + 1
     /\ event' = e
     /\ IF ~isDragging
          THEN /\ drawCalls' = 0
               /\ canvasCalls' = <<>>
               /\ UNCHANGED <<circles, lastCursorX, frame, gfxContext>>
        ELSE IF lastCursorX = Null
          THEN /\ lastCursorX' = Some(cursorX)
               /\ drawCalls' = 0
               /\ canvasCalls' = <<>>
               /\ UNCHANGED <<circles, frame, gfxContext>>
        ELSE \E rotated \in {rotateCircle(circles, Val(activeCircle),
                                 moveRotation(cursorX, cursorY, Val(lastCursorX),
                                              circles[Val(activeCircle)]))} :
             \E drawn \in {draw(Canvas(gfxContext, frame, <<>>), rotated)} :
                /\ circles' = rotated
                /\ frame' = drawn.frame
                /\ gfxContext' = drawn.gfxContext
                /\ canvasCalls' = drawn.calls
                /\ drawCalls' = 1
                /\ lastCursorX' = Some(cursorX)
     /\ UNCHANGED <<puzzleCanvas, image, isDragging, activeCircle>>

Next ==
  \E p \in CursorPoints :
    \/ MouseDown(MouseEvent("mousedown", puzzleCanvas, p))
    \/ MouseMove(MouseEvent("mousemove", puzzleCanvas, p))
    \/ MouseUp(MouseEvent("mouseup", puzzleCanvas, p))

Spec == Init /\ [][Next]_vars
(***************************************************************************)
(* The claims.                                                             *)
(***************************************************************************)
IsMouse(e, type) == e.type = type

\* The circles that contain canvas point (x, y).
Containing(cs, x, y) == {i \in DOMAIN cs : isInside(cs[i], FromInt(x), FromInt(y))}

MaxOf(S) == CHOOSE m \in S : \A k \in S : k <= m

\* The doubles 0.4 and 6.283185307179586 - 0.4 = 5.883185307179586
Double_0_4 == [sgn |-> 1, man |-> <<6554, 13107, 26214, 204>>, exp |-> -54]
Double_2Pi_minus_0_4 == [sgn |-> 1, man |-> <<4990, 30037, 8582, 188>>, exp |-> -50]

\* C1: a mousedown that hits at least one circle always leaves isDragging
\* true, activeCircle the selected circle and lastCursorX null, whatever
\* events came before.  (Refuted: the handler never resets lastCursorX.)
C1_DownLeavesNoCachedPosition ==
  [][IsMouse(event', "mousedown") =>
       LET pos == getCursorPosition(puzzleCanvas', event')
           H   == Containing(circles', pos.x, pos.y)
       IN H # {} => /\ isDragging'
                    /\ activeCircle' = Some(MaxOf(H))
                    /\ lastCursorX' = Null]_vars

\* C2: the first mousemove after a mousedown that hit a circle changes no
\* circle's rotation and only caches the cursor's x.  (Refuted: after
\* mousedown, mousemove, mousedown the cache is stale and the move rotates.)
C2_FirstMoveAfterDownRotatesNothing ==
  [][(/\ IsMouse(event, "mousedown")
      /\ LET pos == getCursorPosition(puzzleCanvas, event)
         IN Containing(circles, pos.x, pos.y) # {}
      /\ IsMouse(event', "mousemove"))
       => /\ \A i \in DOMAIN circles : circles'[i].rotation = circles[i].rotation
          /\ lastCursorX' = Some(getCursorPosition(puzzleCanvas', event').x)]_vars

\* C3: while dragging with a cached x, a mousemove to (x, y) adds exactly
\* one delta to the active circle's rotation and caches x: with
\* base = -(x - cachedX)/50 the delta is base when y is on or below the
\* center line and 2*pi - base when y is above it (0.4 and 2*pi - 0.4 for
\* cachedX = 100, x = 80); the sum is stored as it is, without any modulo.
C3_MoveAddsOneDelta ==
  [][(IsMouse(event', "mousemove") /\ isDragging /\ lastCursorX # Null) =>
       LET pos   == getCursorPosition(puzzleCanvas', event')
           a     == Val(activeCircle)
           dx    == pos.x - Val(lastCursorX)
           base  == FNeg(FDiv(FromInt(dx), FromInt(50)))
           above == 2 * pos.y < puzzleCanvas.height
           delta == IF above THEN FSub(FULL_ROTATION, base) ELSE base
       IN /\ circles'[a].rotation = FAdd(circles[a].rotation, delta)
          /\ lastCursorX' = Some(pos.x)
          /\ (Val(lastCursorX) = 100 /\ pos.x = 80) =>
               delta = IF above THEN Double_2Pi_minus_0_4 ELSE Double_0_4]_vars

\* C3 witness: a rotating move to x = 80 has carried the active circle's
\* rotation past a full turn, and it was kept as it is.
C3_Witness ==
  /\ IsMouse(event, "mousemove")
  /\ drawCalls = 1
  /\ lastCursorX = Some(80)
  /\ FLess(FULL_ROTATION, circles[Val(activeCircle)].rotation)

\* C4: a mouseup always ends in Idle with the cached position cleared, Idle
\* lasts until the next mousedown, and a mousemove in Idle changes no
\* rotation, caches nothing and draws nothing.
C4_UpThenMovesAreNoOps ==
  [][/\ IsMouse(event', "mouseup") => (~isDragging' /\ lastCursorX' = Null)
     /\ (~isDragging /\ ~IsMouse(event', "mousedown")) => ~isDragging'
     /\ (~isDragging /\ IsMouse(event', "mousemove")) =>
          /\ UNCHANGED <<circles, lastCursorX, activeCircle, frame>>
          /\ drawCalls' = 0]_vars

\* C4 witness: a mousemove arrived in Idle after a drag had been ended.
C4_Witness ==
  /\ IsMouse(event, "mousemove")
  /\ ~isDragging
  /\ activeCircle # Null
  /\ lastCursorX = Null
  /\ drawCalls = 0

\* C5: after a mousedown at a point that some circles contain, the active
\* circle is the one with the highest index among them.
C5_InnermostContainingCircleWins ==
  IsMouse(event, "mousedown") =>
    LET pos == getCursorPosition(puzzleCanvas, event)
        H   == Containing(circles, pos.x, pos.y)
    IN H # {} => activeCircle = Some(MaxOf(H))

\* C5 witness: the mousedown point lies in at least three circles.
C5_Witness ==
  /\ IsMouse(event, "mousedown")
  /\ LET pos == getCursorPosition(puzzleCanvas, event)
         H   == Containing(circles, pos.x, pos.y)
     IN Cardinality(H) >= 3 /\ activeCircle = Some(MaxOf(H))

\* The construction's inputs as the state keeps them.
NumCircles == Cardinality(DOMAIN circles)
MinDimension ==
  Min(Min(puzzleCanvas.width, puzzleCanvas.height), Min(image.width, image.height))
XLessEq(a, b) == ~XLess(b, a)

\* C6 as stated: for positive dimensions and N >= 1, circle i's radius is the
\* closed form maxRadius - i * radiusStep, evaluated in the program's
\* arithmetic; radius[0] = maxRadius, radii strictly decrease, all are > 0.
C6_RadiiEqualClosedForm ==
  (NumCircles >= 1 /\ MinDimension > 0) =>
    LET maxRadius  == FDiv(FromInt(MinDimension), FromInt(2))
        radiusStep == FDiv(maxRadius, FromInt(NumCircles))
    IN /\ circles[0].radius = maxRadius
       /\ \A i \in DOMAIN circles :
            /\ circles[i].radius = FSub(maxRadius, FMul(FromInt(i), radiusStep))
            /\ FLess(FZero, circles[i].radius)
            /\ i > 0 => FLess(circles[i].radius, circles[i - 1].radius)

\* C6 amended: for positive dimensions and N >= 1, radius[0] = maxRadius,
\* each further radius is the previous one minus radiusStep (one rounded
\* subtraction each), radii strictly decrease and are > 0; circle i's radius
\* is within N * 2^-52 * maxRadius of the real maxRadius * (N - i) / N, and
\* equals the program-arithmetic closed form whenever N * radiusStep is
\* exactly maxRadius (400 x 400, N = 5: 200, 160, 120, 80, 40 around
\* (200, 200)).
C6_RingLayout ==
  (NumCircles >= 1 /\ MinDimension > 0) =>
    LET N          == NumCircles
        maxRadius  == FDiv(FromInt(MinDimension), FromInt(2))
        radiusStep == FDiv(maxRadius, FromInt(N))
        exactStep  == XEq(XMul(FromInt(N), radiusStep), maxRadius)
    IN /\ circles[0].radius = maxRadius
       /\ \A i \in DOMAIN circles :
            /\ i > 0 => circles[i].radius = FSub(circles[i - 1].radius, radiusStep)
            /\ i > 0 => XLess(circles[i].radius, circles[i - 1].radius)
            /\ XLess(FZero, circles[i].radius)
            /\ XLessEq(XAbs(XSub(XMul(FromInt(N), circles[i].radius),
                                 XMul(FromInt(N - i), maxRadius))),
                       XMul(XMul(FromInt(N * N), XPow2(-52)), maxRadius))
            /\ exactStep =>
                 circles[i].radius = FSub(maxRadius, FMul(FromInt(i), radiusStep))
            /\ XEq(XMul(FromInt(2), circles[i].x), FromInt(puzzleCanvas.width))
            /\ XEq(XMul(FromInt(2), circles[i].y), FromInt(puzzleCanvas.height))
       /\ (MinDimension = 400 /\ N = 5 /\ puzzleCanvas.width = 400
             /\ puzzleCanvas.height = 400) =>
            \A i \in DOMAIN circles :
              /\ circles[i].radius = FromInt(200 - 40 * i)
              /\ circles[i].x = FromInt(200) /\ circles[i].y = FromInt(200)

\* C6 witness: the 400 x 400, five-circle puzzle as constructed.
C6_Witness ==
  /\ event.type = "load"
  /\ NumCircles = 5
  /\ MinDimension = 400
  /\ circles[0].radius = FromInt(200)
  /\ circles[4].radius = FromInt(40)

\* The real squared distance from circle c's center to (x, y), and c's real
\* squared radius.
SquaredDistance(c, x, y) ==
  LET xDist == XSub(c.x, FromInt(x))
      yDist == XSub(c.y, FromInt(y))
  IN XAdd(XMul(xDist, xDist), XMul(yDist, yDist))
SquaredRadius(c) == XMul(c.radius, c.radius)

\* C7: isInside(x, y) is true exactly when the squared distance from (x, y)
\* to the circle's center is strictly less than the squared radius; a point
\* at distance exactly radius is not inside.
C7_InsideIffStrictlyCloser ==
  IsMouse(event, "mousedown") =>
    LET pos == getCursorPosition(puzzleCanvas, event)
    IN \A i \in DOMAIN circles :
         isInside(circles[i], FromInt(pos.x), FromInt(pos.y))
           <=> XLess(SquaredDistance(circles[i], pos.x, pos.y), SquaredRadius(circles[i]))

\* C7 witness: the mousedown point lies exactly on circle i's boundary; the
\* handler passed circle i over and took circle i - 1.
C7_Witness ==
  /\ IsMouse(event, "mousedown")
  /\ LET pos == getCursorPosition(puzzleCanvas, event)
     IN \E i \in DOMAIN circles :
          /\ XEq(SquaredDistance(circles[i], pos.x, pos.y), SquaredRadius(circles[i]))
          /\ ~isInside(circles[i], FromInt(pos.x), FromInt(pos.y))
          /\ activeCircle = Some(i - 1)

\* C8: no event changes the number of circles or any circle's radius, center
\* or image; mousedown and mouseup change no rotation; a mousemove changes
\* the rotation of no circle but the active one.
C8_OnlyTheActiveRotationChanges ==
  [][/\ DOMAIN circles' = DOMAIN circles
     /\ \A i \in DOMAIN circles :
          /\ circles'[i].radius = circles[i].radius
          /\ circles'[i].x = circles[i].x
          /\ circles'[i].y = circles[i].y
          /\ circles'[i].image = circles[i].image
          /\ (IsMouse(event', "mousedown") \/ IsMouse(event', "mouseup"))
               => circles'[i].rotation = circles[i].rotation
          /\ (IsMouse(event', "mousemove") /\ circles'[i].rotation # circles[i].rotation)
               => activeCircle = Some(i)]_vars

\* C8 witness: a mousemove has just rotated circle 4 of a five-circle puzzle.
C8_Witness ==
  /\ IsMouse(event, "mousemove")
  /\ drawCalls = 1
  /\ NumCircles = 5
  /\ activeCircle = Some(4)
  /\ frame[5].rotation = circles[4].rotation

\* The cursor positions a drag is sampled at, and the rotations the
\* mousemove handler passes to rotateCircle between two of them.
DragPoints == { <<100, 250>>, <<80, 150>>, <<80, 200>> }
SampleDeltas(c) == {moveRotation(p[1], p[2], q[1], c) : p, q \in DragPoints}

\* The rotation of circle a after rotateCircle by d1, then by d2.
RotatedTwice(a, d1, d2) ==
  rotateCircle(rotateCircle(circles, a, d1), a, d2)[a].rotation
\* The rotation of circle a after one rotateCircle by d1 + d2.
RotatedOnce(a, d1, d2) == rotateCircle(circles, a, FAdd(d1, d2))[a].rotation

\* C9 as stated: rotateCircle by d1 and then by d2 leaves the same rotation
\* as one rotateCircle by d1 + d2, and as d2 and then d1.
C9_RotationIsAdditive ==
  (isDragging /\ lastCursorX # Null) =>
    LET a == Val(activeCircle)
    IN \A d1, d2 \in SampleDeltas(circles[a]) :
         /\ RotatedTwice(a, d1, d2) = RotatedOnce(a, d1, d2)
         /\ RotatedTwice(a, d1, d2) = RotatedTwice(a, d2, d1)

\* |x - y| <= 2^-50 * (|r| + |d1| + |d2|)
WithinRounding(x, y, r, d1, d2) ==
  XLessEq(XAbs(XSub(x, y)),
          XMul(XPow2(-50), XAdd(XAbs(r), XAdd(XAbs(d1), XAbs(d2)))))

\* C9 amended: rotateCircle by d1 and then by d2 leaves a rotation that
\* differs from the one left by one rotateCircle by d1 + d2, and from the one
\* left by d2 and then d1, by rounding error only: by at most
\* 2^-50 * (|rotation| + |d1| + |d2|).
C9_RotationIsAdditiveUpToRounding ==
  (isDragging /\ lastCursorX # Null) =>
    LET a == Val(activeCircle)
        r == circles[a].rotation
    IN \A d1, d2 \in SampleDeltas(circles[a]) :
         /\ WithinRounding(RotatedTwice(a, d1, d2), RotatedOnce(a, d1, d2), r, d1, d2)
         /\ WithinRounding(RotatedTwice(a, d1, d2), RotatedTwice(a, d2, d1), r, d1, d2)

\* C9 witness: a drag is under way on a circle for which two rotations in a
\* row and their sum in one step leave different rotations.
C9_Witness ==
  /\ isDragging
  /\ lastCursorX # Null
  /\ IsMouse(event, "mousemove")
  /\ drawCalls = 1
  /\ LET a == Val(activeCircle)
     IN \E d1, d2 \in SampleDeltas(circles[a]) :
          RotatedTwice(a, d1, d2) # RotatedOnce(a, d1, d2)

\* C10: a mousedown at a point that no circle contains changes nothing: the
\* dragging state, the active circle, the cached position and every rotation
\* stay as they were, and nothing is drawn.
C10_MissedDownChangesNothing ==
  [][(/\ IsMouse(event', "mousedown")
      /\ LET pos == getCursorPosition(puzzleCanvas', event')
         IN Containing(circles, pos.x, pos.y) = {})
       => /\ UNCHANGED <<circles, isDragging, activeCircle, lastCursorX, frame>>
          /\ drawCalls' = 0]_vars

\* C10 witness: a mousedown left of the canvas arrived in Idle and left it Idle.
C10_Witness ==
  /\ IsMouse(event, "mousedown")
  /\ ~isDragging
  /\ LET pos == getCursorPosition(puzzleCanvas, event)
     IN pos.x < 0 /\ Containing(circles, pos.x, pos.y) = {}


\* The rotations the constructor can have given circle i.
InitialRotations(i) == {FMul(MathRandom(s, i), FULL_ROTATION) : s \in RandomStreams}

\* C11: a mousedown that arrives during a drag and hits a circle is not
\* ignored: the circle it selects becomes the active circle and the drag goes
\* on without a mouseup; from then on a mousemove rotates that circle and no
\* other.
C11_DownWhileDraggingReassigns ==
  [][/\ (isDragging /\ IsMouse(event', "mousedown")) =>
          LET pos == getCursorPosition(puzzleCanvas', event')
              H   == Containing(circles, pos.x, pos.y)
          IN H # {} => (isDragging' /\ activeCircle' = Some(MaxOf(H)))
     /\ (isDragging /\ lastCursorX # Null /\ IsMouse(event', "mousemove")) =>
          LET pos == getCursorPosition(puzzleCanvas', event')
              a   == Val(activeCircle)
          IN /\ circles' = rotateCircle(circles, a,
                             moveRotation(pos.x, pos.y, Val(lastCursorX), circles[a]))
             /\ \A i \in DOMAIN circles \ {a} : circles'[i] = circles[i]]_vars

\* C11 witness: a mousedown has arrived during a drag that had already turned
\* circle i (the cached position of that drag is still there) and has made
\* another circle the active one.
C11_Witness ==
  /\ IsMouse(event, "mousedown")
  /\ isDragging
  /\ lastCursorX # Null
  /\ \E i \in DOMAIN circles :
       /\ activeCircle # Some(i)
       /\ circles[i].rotation \notin InitialRotations(i)

\* C12: the canvas is never stale.  The constructor ends with a draw(), and
\* after every handler the canvas shows one layer per circle, in index order,
\* each rotated by its circle's current rotation around its circle's center.
C12_FrameShowsCurrentRotations ==
  /\ event.type = "load" => (drawCalls = 1 /\ Len(canvasCalls) = NumCircles + 1)
  /\ Len(frame) = NumCircles
  /\ \A i \in DOMAIN circles :
       /\ frame[i + 1].index = i
       /\ frame[i + 1].rotation = circles[i].rotation
       /\ frame[i + 1].transform =
            << <<"translate", circles[i].x, circles[i].y>>,
               <<"rotate", circles[i].rotation>> >>

\* C12 witness: a mousemove has turned the active circle away from the
\* rotation it was constructed with, and the canvas shows the new rotation.
C12_Witness ==
  /\ IsMouse(event, "mousemove")
  /\ drawCalls = 1
  /\ LET a == Val(activeCircle)
     IN /\ circles[a].rotation \notin InitialRotations(a)
        /\ frame[a + 1].rotation = circles[a].rotation

\* The calls one draw() of n circles makes on the puzzle canvas.
DrawSequence(n) ==
  [k \in 1..(n + 1) |-> IF k = 1 THEN <<"clear">> ELSE <<"drawPuzzleCircle", k - 2>>]

\* The disc a layer was clipped to: its center (the translation it was painted
\* under) and its radius (the arc of the clip path).
LayerCenterX(layer) == layer.transform[1][2]
LayerCenterY(layer) == layer.transform[1][3]
LayerRadius(layer) == layer.clip[1][1].radius

\* Layer covers canvas point (x, y): the point is in the interior of the
\* layer's clip disc, which the layer's image fills.
Covers(layer, x, y) ==
  LET xDist == XSub(LayerCenterX(layer), FromInt(x))
      yDist == XSub(LayerCenterY(layer), FromInt(y))
  IN XLess(XAdd(XMul(xDist, xDist), XMul(yDist, yDist)),
           XMul(LayerRadius(layer), LayerRadius(layer)))

\* The circle seen at canvas point (x, y): the one painted last of those
\* whose layer covers the point, Null where no layer does.
VisibleCircle(x, y) ==
  LET K == {k \in 1..Len(frame) : Covers(frame[k], x, y)}
  IN IF K = {} THEN Null ELSE Some(frame[MaxOf(K)].index)

\* The canvas points looked at in a state: the cursor's, and every cursor
\* point for the puzzle as constructed.
PointsInView ==
  IF event.type = "load" THEN CursorPoints
  ELSE LET pos == getCursorPosition(puzzleCanvas, event) IN {<<pos.x, pos.y>>}

\* C13: a draw() calls clear once, first, and then drawPuzzleCircle once per
\* circle in increasing index order; every layer is painted over the earlier
\* ones and fills its clip disc (measured when it has just been painted), so
\* at every point the circle seen on the canvas is the circle a mousedown at
\* that point selects.
C13_DrawOrderMatchesHitTest ==
  [](/\ canvasCalls = IF drawCalls = 1 THEN DrawSequence(NumCircles) ELSE <<>>
     /\ \A k \in 1..Len(frame) :
          /\ frame[k].index = k - 1
          /\ frame[k].globalCompositeOperation = "source-over"
          /\ Len(frame[k].clip) = 1 /\ Len(frame[k].clip[1]) = 1
          /\ drawCalls = 1 =>
               XLessEq(XMul(FromInt(2), LayerRadius(frame[k])),
                       FromInt(Min(frame[k].image.width, frame[k].image.height)))
     /\ \A p \in PointsInView :
          VisibleCircle(p[1], p[2]) = clickedCircle(circles, NumCircles - 1, p[1], p[2]))

\* C13 witness: a mousemove has redrawn a five-circle puzzle, and under the
\* cursor circle 2, the active one, is seen on top of circles 0 and 1.
C13_Witness ==
  /\ IsMouse(event, "mousemove")
  /\ drawCalls = 1
  /\ canvasCalls = DrawSequence(5)
  /\ LET pos == getCursorPosition(puzzleCanvas, event)
     IN /\ VisibleCircle(pos.x, pos.y) = Some(2)
        /\ activeCircle = Some(2)
        /\ Covers(frame[1], pos.x, pos.y) /\ Covers(frame[2], pos.x, pos.y)

\* Contexts drawPuzzleCircle is tried on besides the canvas' own: a new one,
\* and one that is translated, clipped, set to another composite operation
\* and holds a saved drawing state.
UsedContext ==
  [globalCompositeOperation |-> "xor",
   transform |-> << <<"translate", FromInt(10), FromInt(20)>> >>,
   clip |-> << << [radius |-> FromInt(30), transform |-> <<>>] >> >>,
   stack |-> << DrawingState(NewContext) >>,
   path |-> <<>>]
SampleContexts == {NewContext, UsedContext, gfxContext}

\* The layer drawPuzzleCircle paints for circle i on canvas cv.
PaintedLayer(cv, i) ==
  LET after == drawPuzzleCircle(cv, i, circles[i]) IN after.frame[Len(after.frame)]

\* C14: drawPuzzleCircle leaves the context's drawing state (transform, clip
\* region, composite operation) and its stack of saved states as it found
\* them, whatever they were, so the circle drawn next is painted as if it
\* were drawn first; after any sequence of draws the canvas' context is
\* untransformed, unclipped and has nothing saved.  (The current path, which
\* is not part of the drawing state, is left behind; every drawPuzzleCircle
\* starts with beginPath.)  The circles and the context change in draw()
\* only, so the calls are tried in the states a draw() has just left.
C14_DrawPuzzleCircleRestoresContext ==
  [](/\ gfxContext.transform = <<>> /\ gfxContext.clip = <<>> /\ gfxContext.stack = <<>>
     /\ gfxContext.globalCompositeOperation = "destination-over"
     /\ drawCalls = 1 =>
          \A context \in SampleContexts, i \in DOMAIN circles :
            LET before == Canvas(context, frame, <<>>)
                after  == drawPuzzleCircle(before, i, circles[i])
            IN /\ DrawingState(after.gfxContext) = DrawingState(context)
               /\ after.gfxContext.stack = context.stack
               /\ (i + 1) \in DOMAIN circles =>
                    PaintedLayer(after, i + 1) = PaintedLayer(before, i + 1))

\* C14 witness: a mousemove has redrawn five circles, each under its own
\* translation, rotation and clip, and the context is back in its state.
C14_Witness ==
  /\ IsMouse(event, "mousemove")
  /\ drawCalls = 1
  /\ Len(frame) = 5
  /\ \A k \in 1..5 : Len(frame[k].transform) = 2 /\ Len(frame[k].clip) = 1
  /\ gfxContext.path # <<>>
  /\ DrawingState(gfxContext) =
       [globalCompositeOperation |-> "destination-over", transform |-> <<>>, clip |-> <<>>]

\* A puzzle without circles, or with a zero maxRadius.
Degenerate == NumCircles = 0 \/ MinDimension = 0

\* C15: a puzzle constructed with no circles or with a zero maxRadius stays
\* as constructed: its circles have radius zero and contain no point, no
\* event starts a drag, and no rotation ever changes.
C15_DegenerateStaysIdle ==
  [][Degenerate =>
       /\ \A i \in DOMAIN circles :
            /\ circles[i].radius = FZero
            /\ \A p \in CursorPoints : ~isInside(circles[i], FromInt(p[1]), FromInt(p[2]))
       /\ ~isDragging /\ ~isDragging'
       /\ activeCircle' = Null /\ lastCursorX' = Null
       /\ circles' = circles
       /\ drawCalls' = 0]_vars

\* C15 witness: a mousedown on the very center of three zero-radius circles
\* has left the puzzle Idle.
C15_Witness ==
  /\ IsMouse(event, "mousedown")
  /\ NumCircles = 3 /\ MinDimension = 0
  /\ LET pos == getCursorPosition(puzzleCanvas, event)
     IN FromInt(pos.x) = circles[2].x /\ FromInt(pos.y) = circles[2].y
  /\ ~isDragging /\ activeCircle = Null

\* C16: whenever isDragging is true, activeCircle is not null and is one of
\* the puzzle's circles, so the mousemove handler always finds the circle
\* whose y it reads and which it rotates.
C16_DraggingHasActiveCircle ==
  isDragging => (activeCircle # Null /\ Val(activeCircle) \in DOMAIN circles)

\* C16 witness: at least four events in, a mousemove has found a drag with a
\* cached position and an active circle to read.
C16_Witness ==
  /\ IsMouse(event, "mousemove")
  /\ isDragging
  /\ lastCursorX # Null
  /\ nEvents >= 4
  /\ Val(activeCircle) \in DOMAIN circles
  /\ \A i \in DOMAIN circles : circles[i].rotation \in InitialRotations(i)

\* C17: in Idle (isDragging false) the cached cursor position is null; a
\* cached position exists only during a drag.
C17_IdleHasNoCachedPosition ==
  ~isDragging => lastCursorX = Null

\* C17 witness: a mouseup has ended a drag that had a cached position (it
\* turned a circle), and has left no cached position behind.
C17_Witness ==
  /\ IsMouse(event, "mouseup")
  /\ ~isDragging
  /\ lastCursorX = Null
  /\ activeCircle # Null
  /\ circles[Val(activeCircle)].rotation \notin InitialRotations(Val(activeCircle))

\* The cursor is above circle c's center line at height y: cursorY < circle.y
Above(c, y) == XLess(FromInt(y), c.y)

\* The active circle's rotation after a mousemove to p1 and a mousemove back
\* to the cached x, at height y2.
RoundTrip(a, p1, y2) ==
  LET x0 == Val(lastCursorX)
      c1 == rotateCircle(circles, a, moveRotation(p1[1], p1[2], x0, circles[a]))
      c2 == rotateCircle(c1, a, moveRotation(x0, y2, p1[1], c1[a]))
  IN c2[a].rotation

\* The pairs of a point of the drag to move to and a height to come back at,
\* both on the same side of circle c's center line.
RoundTrips(c) ==
  {t \in DragPoints \X {p[2] : p \in DragPoints} : Above(c, t[1][2]) = Above(c, t[2])}

\* Two full rotations, 4 * pi as the program has it.
TwoFullRotations == FAdd(FULL_ROTATION, FULL_ROTATION)

\* C18 as stated: a mousemove to x1 and one back to the cached x, both on the
\* same side of the center line, leave the active circle's rotation exactly
\* as it was when both are on or below the line, and larger by exactly 4 * pi
\* when both are above it.
C18_RoundTripIsExact ==
  (isDragging /\ lastCursorX # Null) =>
    LET a == Val(activeCircle)
        r == circles[a].rotation
    IN \A t \in RoundTrips(circles[a]) :
         IF Above(circles[a], t[2])
           THEN XEq(XSub(RoundTrip(a, t[1], t[2]), r), TwoFullRotations)
           ELSE RoundTrip(a, t[1], t[2]) = r

\* C18 amended: such a round trip leaves the rotation within rounding error
\* of its starting value r (both moves on or below the center line) or of
\* r + 4 * pi (both above): within 2^-50 * (|r| + |d1| + |d2|), d1 and d2
\* being the rotations the two moves pass to rotateCircle.
C18_RoundTripUpToRounding ==
  []((isDragging /\ lastCursorX # Null) =>
       LET a  == Val(activeCircle)
           r  == circles[a].rotation
           x0 == Val(lastCursorX)
       IN \A t \in RoundTrips(circles[a]) :
            LET d1 == moveRotation(t[1][1], t[1][2], x0, circles[a])
                d2 == moveRotation(x0, t[2], t[1][1], circles[a])
                target == IF Above(circles[a], t[2]) THEN XAdd(r, TwoFullRotations) ELSE r
            IN WithinRounding(RoundTrip(a, t[1], t[2]), target, r, d1, d2))

\* C18 witness: two mousemoves of a drag, there and back, have left the active
\* circle's rotation next to the one it was constructed with, but not on it.
C18_Witness ==
  /\ IsMouse(event, "mousemove")
  /\ isDragging
  /\ drawCalls = 1
  /\ LET a == Val(activeCircle)
         r == circles[a].rotation
     IN /\ r \notin InitialRotations(a)
        /\ \E r0 \in InitialRotations(a) : XLess(XAbs(XSub(r, r0)), XPow2(-40))

=============================================================================
